---- MODULE Spec2Model ----
(***************************************************************************)
(* Stock performance analyzer: the YTD return calculator, the per-ticker   *)
(* series organizer, the calendar window resolver and the Streamlit page   *)
(* flows that call them (src/utils/*.py, src/pages/*.py).                  *)
(*                                                                         *)
(* A DataFrame is a sequence of row records in row order.  A float is an   *)
(* exact fraction <<n, d>> with d > 0; NaN is <<0, 0>>.  Python's None is  *)
(* the empty tuple and a present optional value v is <<v>>.                *)
(***************************************************************************)
EXTENDS Integers, Sequences, FiniteSets, TLC

VARIABLES
    today,          \* datetime.now(): [year, month]
    market,         \* the ticker's price history at the price source
    pc,             \* where the last run of a handler or call ended
    invoked,        \* the functions that run called, in order
    args,           \* the arguments of the call the claims are about
    data,           \* the bars handed to calculate_ytd_returns
    ytd_data,       \* the observation table (calculate_ytd_returns' result)
    prepared,       \* prepare_ytd_series' result
    summary_stats,  \* get_summary_statistics' result
    window,         \* the years and month the comparison page resolved
    all_ytd_data,   \* the comparator's input: ticker -> observation table
    comparison_data,\* prepare_comparison_data's result
    stats_df,       \* calculate_comparison_statistics' result
    ticker_list,    \* st.session_state.ticker_list of the comparison page
    failed_tickers, \* the tickers the comparison page's warning names
    display_df      \* format_comparison_table's result

vars == <<today, market, pc, invoked, args, data, ytd_data, prepared,
          summary_stats, window, all_ytd_data, comparison_data, stats_df,
          ticker_list, failed_tickers, display_df>>

----------------------------------------------------------------------------
(* Bounds of the model *)

\* Most bars a ticker's price history holds.
MaxBars == 3
\* Most rows of an observation table handed to the series organizer directly.
MaxObs == 3
\* Calendar years the clock of the window resolver runs through.
ResolverYears == 3

\* Most tickers the comparator is handed.
MaxTickers == 2
\* Most rows of one ticker's observation table handed to the comparator.
MaxTickerRows == 2

\* Program constants
January == 1
December == 12

\* Calendar years bars may lie in; the clock runs in the last one.
Years == 2023..2026
Months == January..December
\* Months in which the modelled price histories have bars.
BarMonths == {January, January + 1, December}
\* Closing prices of the modelled bars.
Closes == {1, 2}

----------------------------------------------------------------------------
(* Values *)

None == <<>>
Some(v) == <<v>>
IsNone(o) == Len(o) = 0

NaN == <<0, 0>>
IsNaN(x) == x[2] = 0

Abs(i) == IF i < 0 THEN -i ELSE i
RECURSIVE Gcd(_, _)
Gcd(a, b) == IF b = 0 THEN a ELSE Gcd(b, a % b)

\* The fraction n / d in lowest terms with a positive denominator (the closes
\* are positive: no division by zero is reached).
Frac(n, d) ==
    IF d = 0 THEN NaN
    ELSE LET g == Gcd(Abs(n), Abs(d))
             sign == IF d < 0 THEN -1 ELSE 1
         IN <<sign * (n \div g), sign * (d \div g)>>

Float(i) == <<i, 1>>
TrueDiv(x, y) == IF IsNaN(x) \/ IsNaN(y) THEN NaN ELSE Frac(x[1] * y[2], x[2] * y[1])
Sub(x, y) == IF IsNaN(x) \/ IsNaN(y) THEN NaN ELSE Frac(x[1] * y[2] - y[1] * x[2], x[2] * y[2])
Add(x, y) == IF IsNaN(x) \/ IsNaN(y) THEN NaN ELSE Frac(x[1] * y[2] + y[1] * x[2], x[2] * y[2])
Mul(x, y) == IF IsNaN(x) \/ IsNaN(y) THEN NaN ELSE Frac(x[1] * y[1], x[2] * y[2])
FEq(x, y) == ~IsNaN(x) /\ ~IsNaN(y) /\ x[1] * y[2] = y[1] * x[2]
FLt(x, y) == ~IsNaN(x) /\ ~IsNaN(y) /\ x[1] * y[2] < y[1] * x[2]

Range(s) == {s[i] : i \in DOMAIN s}
Max(S) == CHOOSE x \in S : \A y \in S : y <= x
Min(S) == CHOOSE x \in S : \A y \in S : x <= y

\* Position of a (year, month) on the calendar.
DateOrd(year, month) == year * December + month

RECURSIVE SortByDate(_)
SortByDate(S) ==
    IF S = {} THEN <<>>
    ELSE LET first == CHOOSE r \in S :
                        \A q \in S : DateOrd(r.Year, r.Month) <= DateOrd(q.Year, q.Month)
         IN <<first>> \o SortByDate(S \ {first})

----------------------------------------------------------------------------
(* src/utils/ytd_analysis.py: calculate_ytd_returns *)

\* Faulty variant: the start year is left out of the range.
BetweenMutantOpen(r, start_year, end_year) == r.Year > start_year /\ r.Year <= end_year
\* Faulty variant: no restriction to the range.
BetweenMutantAll(r, start_year, end_year) == TRUE
\* df["Year"].between(start_year, end_year)
Between(r, start_year, end_year) == r.Year >= start_year /\ r.Year <= end_year

FilterRange(df, start_year, end_year) ==
    LET Keep(r) == Between(r, start_year, end_year) IN SelectSeq(df, Keep)

\* Faulty variant: the month in progress counts as completed.
InProgressMutant(r, end_year, now) == r.Year = end_year /\ r.Month > now.month
\* (df["Year"] == end_year) & (df["Month"] >= today.month)
InProgress(r, end_year, now) == r.Year = end_year /\ r.Month >= now.month

\* if end_year == today.year: df = df[~(...)]
FilterCompleted(df, end_year, now) ==
    IF end_year = now.year
    THEN LET Keep(r) == ~InProgress(r, end_year, now) IN SelectSeq(df, Keep)
    ELSE df

\* Faulty variant: the December of the same year is the baseline.
BaselineYearMutant(r) == r.Year
\* dec_baseline["Year"] = dec_baseline["Year"] + 1
BaselineYear(r) == r.Year + 1

\* dec_baseline: the December closes indexed by the following year.
DecBaseline(df) ==
    LET dec == {r \in Range(df) : r.Month = December}
    IN [y \in {BaselineYear(r) : r \in dec} |->
          (CHOOSE r \in dec : BaselineYear(r) = y).Close]

\* df["Year"].map(dec_baseline): NaN where the year is no key.
MapYear(dec_baseline, year) ==
    IF year \in DOMAIN dec_baseline THEN Float(dec_baseline[year]) ELSE NaN

\* df["YTD"] = df["Close"] / df["Year"].map(dec_baseline) - 1
WithYTD(df) ==
    LET dec_baseline == DecBaseline(df)
    IN [i \in DOMAIN df |->
          [Year |-> df[i].Year, Month |-> df[i].Month, Close |-> df[i].Close,
           YTD |-> Sub(TrueDiv(Float(df[i].Close), MapYear(dec_baseline, df[i].Year)),
                       Float(1))]]

\* Faulty variant: rows without a YTD value are kept.
DropNaMutant(df) == df
\* df.dropna(subset=["YTD"])
DropNa(df) ==
    LET Keep(r) == ~IsNaN(r.YTD) IN SelectSeq(df, Keep)

\* Faulty variant: the December baselines are taken before the range filter.
CalculateMutantBaselineFirst(df, start_year, end_year, now) ==
    FilterCompleted(FilterRange(DropNa(WithYTD(df)), start_year, end_year), end_year, now)
calculate_ytd_returns(df, start_year, end_year, now) ==
    DropNa(WithYTD(FilterCompleted(FilterRange(df, start_year, end_year), end_year, now)))

----------------------------------------------------------------------------
(* src/utils/ytd_analysis.py: prepare_ytd_series *)

RECURSIVE SortInts(_)
SortInts(S) ==
    IF S = {} THEN <<>> ELSE <<Min(S)>> \o SortInts(S \ {Min(S)})

\* df.loc[df["Year"] == year, ["Month", "YTD"]].set_index("Month")["YTD"]
YearSeries(df, year) ==
    LET rows == LET Keep(r) == r.Year = year IN SelectSeq(df, Keep)
    IN [i \in DOMAIN rows |-> [Month |-> rows[i].Month, YTD |-> rows[i].YTD]]

\* The dict ytd_by_year in insertion order: one entry per year, ascending.
YtdByYear(df) ==
    LET years == SortInts({r.Year : r \in Range(df)})
    IN [i \in DOMAIN years |-> [Year |-> years[i], Series |-> YearSeries(df, years[i])]]

\* Faulty variant: always the greatest year present.
HighlightYearMutant(df, current_year) == Max({r.Year : r \in Range(df)})
\* if len(current_year_data) > 0: ... else: ...
HighlightYear(df, current_year) ==
    IF \E r \in Range(df) : r.Year = current_year
    THEN current_year
    ELSE Max({r.Year : r \in Range(df)})

\* Faulty variant: the least month of the year.
LastMonthOfMutant(df, year) == Min({r.Month : r \in {q \in Range(df) : q.Year = year}})
\* df.loc[df["Year"] == highlight_year, "Month"].max()
LastMonthOf(df, year) == Max({r.Month : r \in {q \in Range(df) : q.Year = year}})

\* max(years) raises ValueError on an empty table without rows of current_year.
PrepareRaises(df) == Len(df) = 0

prepare_ytd_series(df, current_year) ==
    [ytd_by_year |-> YtdByYear(df),
     highlight_year |-> HighlightYear(df, current_year),
     last_month_highlight |-> LastMonthOf(df, HighlightYear(df, current_year))]

----------------------------------------------------------------------------
(* src/utils/ytd_analysis.py: calculate_historical_average,
   get_summary_statistics *)

Keys(d) == [i \in DOMAIN d |-> d[i].Year]
Lookup(d, year) == (CHOOSE e \in Range(d) : e.Year = year).Series

\* series.get(12, np.nan)
SeriesGet(series, month) ==
    IF \E e \in Range(series) : e.Month = month
    THEN (CHOOSE e \in Range(series) : e.Month = month).YTD
    ELSE NaN

\* 12 in series.index and not np.isnan(series.loc[12])
HasYearEnd(series) ==
    /\ \E e \in Range(series) : e.Month = December
    /\ ~IsNaN(SeriesGet(series, December))

RECURSIVE SumSeq(_)
SumSeq(xs) == IF Len(xs) = 0 THEN Float(0) ELSE Add(xs[1], SumSeq(Tail(xs)))

\* np.mean(xs)
Mean(xs) == TrueDiv(SumSeq(xs), Float(Len(xs)))

\* The square root of the fraction v.
SqrtOf(v) == <<v[1], v[2], 2>>

\* np.std(xs, ddof=1)
StdDdof1(xs) ==
    LET dev == [i \in DOMAIN xs |-> Mul(Sub(xs[i], Mean(xs)), Sub(xs[i], Mean(xs)))]
    IN SqrtOf(TrueDiv(SumSeq(dev), Float(Len(xs) - 1)))

\* Faulty variant: the highlighted year is always excluded.
ExcludeYearMutant(highlight_year, last_month_highlight) == Some(highlight_year)
\* exclude_year = highlight_year if last_month_highlight < 12 else None
ExcludeYear(highlight_year, last_month_highlight) ==
    IF last_month_highlight < December THEN Some(highlight_year) ELSE None

\* completed_years = [y for y in ytd_by_year.keys() if y != exclude_year]
CompletedYears(ytd_by_year, exclude_year) ==
    LET Keep(y) == exclude_year # Some(y) IN SelectSeq(Keys(ytd_by_year), Keep)

\* dec_returns_clean: the December values of the completed years, NaN removed.
DecReturnsClean(ytd_by_year, exclude_year) ==
    LET completed_years == CompletedYears(ytd_by_year, exclude_year)
        dec_returns == [i \in DOMAIN completed_years |->
                          SeriesGet(Lookup(ytd_by_year, completed_years[i]), December)]
        Keep(r) == ~IsNaN(r)
    IN SelectSeq(dec_returns, Keep)

\* Faulty variant: an empty pool averages to zero.
AvgFullYearMutant(dec_returns_clean) ==
    IF Len(dec_returns_clean) > 0 THEN Mean(dec_returns_clean) ELSE Float(0)
\* avg = np.mean(dec_returns_clean) if dec_returns_clean else np.nan
AvgFullYear(dec_returns_clean) ==
    IF Len(dec_returns_clean) > 0 THEN Mean(dec_returns_clean) ELSE NaN

\* std = np.std(dec_returns_clean, ddof=1) if len(dec_returns_clean) > 1 else np.nan
StdFullYear(dec_returns_clean) ==
    IF Len(dec_returns_clean) > 1 THEN StdDdof1(dec_returns_clean) ELSE NaN

calculate_historical_average(ytd_by_year, exclude_year) ==
    LET dec_returns_clean == DecReturnsClean(ytd_by_year, exclude_year)
    IN [avg |-> AvgFullYear(dec_returns_clean),
        std |-> StdFullYear(dec_returns_clean),
        n_years |-> Len(dec_returns_clean)]

\* year_end_returns: the years that have a December value, in key order.
YearEndYears(ytd_by_year) ==
    LET Keep(y) == HasYearEnd(Lookup(ytd_by_year, y))
    IN SelectSeq(Keys(ytd_by_year), Keep)

YearEnd(ytd_by_year, year) == SeriesGet(Lookup(ytd_by_year, year), December)

\* Faulty variant: the last key in iteration order with the greatest value.
ArgMaxMutant(ytd_by_year, ys) ==
    LET i == CHOOSE i \in DOMAIN ys :
               /\ \A j \in DOMAIN ys :
                     ~FLt(YearEnd(ytd_by_year, ys[i]), YearEnd(ytd_by_year, ys[j]))
               /\ \A j \in (i + 1)..Len(ys) :
                     FLt(YearEnd(ytd_by_year, ys[j]), YearEnd(ytd_by_year, ys[i]))
    IN ys[i]
\* max(keys, key=...): the first key in iteration order with the greatest value.
ArgMax(ytd_by_year, ys) ==
    LET i == CHOOSE i \in DOMAIN ys :
               /\ \A j \in DOMAIN ys :
                     ~FLt(YearEnd(ytd_by_year, ys[i]), YearEnd(ytd_by_year, ys[j]))
               /\ \A j \in 1..(i - 1) :
                     FLt(YearEnd(ytd_by_year, ys[j]), YearEnd(ytd_by_year, ys[i]))
    IN ys[i]

\* min(keys, key=...): the first key in iteration order with the least value.
ArgMin(ytd_by_year, ys) ==
    LET i == CHOOSE i \in DOMAIN ys :
               /\ \A j \in DOMAIN ys :
                     ~FLt(YearEnd(ytd_by_year, ys[j]), YearEnd(ytd_by_year, ys[i]))
               /\ \A j \in 1..(i - 1) :
                     FLt(YearEnd(ytd_by_year, ys[i]), YearEnd(ytd_by_year, ys[j]))
    IN ys[i]

\* Faulty variant: the year's first row, .iloc[0].
CurrentYtdMutant(ytd_by_year, highlight_year) ==
    IF /\ \E e \in Range(ytd_by_year) : e.Year = highlight_year
       /\ Len(Lookup(ytd_by_year, highlight_year)) > 0
    THEN Some(Lookup(ytd_by_year, highlight_year)[1].YTD)
    ELSE None
\* ytd_by_year[highlight_year].iloc[-1], when the year is a key with rows.
CurrentYtd(ytd_by_year, highlight_year) ==
    IF /\ \E e \in Range(ytd_by_year) : e.Year = highlight_year
       /\ Len(Lookup(ytd_by_year, highlight_year)) > 0
    THEN LET s == Lookup(ytd_by_year, highlight_year) IN Some(s[Len(s)].YTD)
    ELSE None

\* Faulty variant: zero where no year has a December value.
YearEndResultMutant(found, value) == IF found THEN Some(value) ELSE Some(0)
\* best_year = None, ... (lines 166-169), assigned if len(year_end_returns) >= 1
YearEndResult(found, value) == IF found THEN Some(value) ELSE None

\* min(ytd_by_year.keys()) raises ValueError on an empty dict.
StatsRaises(ytd_by_year) == Len(ytd_by_year) = 0

get_summary_statistics(ytd_by_year, highlight_year, last_month_highlight) ==
    LET hist == calculate_historical_average(
                    ytd_by_year, ExcludeYear(highlight_year, last_month_highlight))
        ys == YearEndYears(ytd_by_year)
        found == Len(ys) >= 1
    IN [actual_start_year |-> Min(Range(Keys(ytd_by_year))),
        highlight_year |-> highlight_year,
        last_month_highlight |-> last_month_highlight,
        avg_full_year_ytd |-> hist.avg,
        std_full_year_ytd |-> hist.std,
        n_years |-> hist.n_years,
        best_year |-> YearEndResult(found, ArgMax(ytd_by_year, ys)),
        best_return |-> YearEndResult(found, YearEnd(ytd_by_year, ArgMax(ytd_by_year, ys))),
        worst_year |-> YearEndResult(found, ArgMin(ytd_by_year, ys)),
        worst_return |-> YearEndResult(found, YearEnd(ytd_by_year, ArgMin(ytd_by_year, ys))),
        current_ytd |-> CurrentYtd(ytd_by_year, highlight_year)]

----------------------------------------------------------------------------
(* src/utils/data_fetcher.py: load_ticker_data *)

\* The monthly bars from January of start_year up to the month in progress,
\* or None when the download fails or yields nothing.
load_ticker_data(history, start_year, now, fails) ==
    LET Keep(r) == /\ r.Year >= start_year
                   /\ DateOrd(r.Year, r.Month) <= DateOrd(now.year, now.month)
        monthly_data == SelectSeq(history, Keep)
    IN IF fails \/ Len(monthly_data) = 0 THEN None ELSE Some(monthly_data)

----------------------------------------------------------------------------
(* src/pages/2_Historical_YTD.py: the analyze button *)

\* if data is None or len(data) == 0
NoData(loaded) == IsNone(loaded) \/ Len(loaded[1]) = 0

\* Faulty variant: the flow goes on with an empty table.
NoYtdMutant(ytd) == FALSE
\* if len(ytd_data) == 0
NoYtd(ytd) == Len(ytd) = 0

Outcome(p, calls, a, d, y, s, st) ==
    [pc |-> p, invoked |-> calls, args |-> a, data |-> d, ytd_data |-> y,
     prepared |-> s, summary_stats |-> st]

\* What one run of the handler leaves behind.
AnalyzeOutcome(ticker, valid, start_year, fails, history, now) ==
    LET current_year == now.year
        loaded == load_ticker_data(history, start_year, now, fails)
        df == IF IsNone(loaded) THEN <<>> ELSE loaded[1]
        a == Some([start_year |-> start_year, end_year |-> current_year, now |-> now])
        ytd == calculate_ytd_returns(df, start_year, current_year, now)
        prep == prepare_ytd_series(ytd, current_year)
        stats == get_summary_statistics(prep.ytd_by_year, prep.highlight_year,
                                        prep.last_month_highlight)
    IN IF ticker = ""
       THEN Outcome("enter_ticker", <<>>, None, None, None, None, None)
       ELSE IF ~valid
       THEN Outcome("invalid_ticker", <<"validate_ticker">>, None, None, None, None, None)
       ELSE IF NoData(loaded)
       THEN Outcome("no_data", <<"validate_ticker", "load_ticker_data">>,
                    None, loaded, None, None, None)
       ELSE IF NoYtd(ytd)
       THEN Outcome("insufficient",
                    <<"validate_ticker", "load_ticker_data", "calculate_ytd_returns">>,
                    a, loaded, Some(ytd), None, None)
       ELSE IF PrepareRaises(ytd)
       THEN Outcome("exception",
                    <<"validate_ticker", "load_ticker_data", "calculate_ytd_returns",
                      "prepare_ytd_series">>,
                    a, loaded, Some(ytd), None, None)
       ELSE Outcome("displayed",
                    <<"validate_ticker", "load_ticker_data", "calculate_ytd_returns",
                      "prepare_ytd_series", "get_summary_statistics">>,
                    a, loaded, Some(ytd), Some(prep), Some(stats))

----------------------------------------------------------------------------
(* src/utils/multi_ticker_analysis.py: determine_comparison_years, and the
   years the comparison page derives from it *)

\* Faulty variant: the current month counts as completed.
LastCompletedMonthMutant(now) == now.month
\* last_completed_month = current_month - 1
LastCompletedMonth(now) == now.month - 1

\* Faulty variant: January is not told apart.
IsJanuaryMutant(now) == FALSE
\* if current_month == 1
IsJanuary(now) == now.month = January

determine_comparison_years(now) ==
    IF IsJanuary(now)
    THEN [current_year |-> now.year, prior_year |-> now.year - 1,
          last_month |-> December, is_january |-> TRUE]
    ELSE [current_year |-> now.year, prior_year |-> now.year - 1,
          last_month |-> LastCompletedMonth(now), is_january |-> FALSE]

\* compare_year, baseline_year of the page
CompareYear(w) == IF w.is_january THEN w.prior_year ELSE w.current_year
PageBaselineYear(w) == IF w.is_january THEN w.prior_year - 1 ELSE w.prior_year

\* What the top of the comparison page computes on every run of the script.
ComparisonWindow(now) ==
    LET w == determine_comparison_years(now)
    IN [current_year |-> w.current_year, prior_year |-> w.prior_year,
        last_month |-> w.last_month, is_january |-> w.is_january,
        compare_year |-> CompareYear(w), baseline_year |-> PageBaselineYear(w),
        now |-> now]

----------------------------------------------------------------------------
(* src/utils/multi_ticker_analysis.py: get_ytd_for_comparison,
   prepare_comparison_data, calculate_comparison_statistics *)

\* Faulty variant: the last month itself is cut off.
TruncateMutant(series, last_month) ==
    LET Keep(e) == e.Month < last_month IN SelectSeq(series, Keep)
\* series = series[series.index <= last_month]
Truncate(series, last_month) ==
    LET Keep(e) == e.Month <= last_month IN SelectSeq(series, Keep)

get_ytd_for_comparison(df, year, last_month) ==
    LET year_data == YearSeries(df, year)
        series == Truncate(year_data, last_month)
    IN IF Len(year_data) = 0 THEN None
       ELSE IF Len(series) > 0 THEN Some(series) ELSE None

\* Faulty variant: a ticker needs both series.
HasPeriodMutant(current_series, prior_series) ==
    ~IsNone(current_series) /\ ~IsNone(prior_series)
\* if current_series is not None or prior_series is not None
HasPeriod(current_series, prior_series) ==
    ~IsNone(current_series) \/ ~IsNone(prior_series)

\* The dict comparison_data in insertion order: an entry per ticker kept.
prepare_comparison_data(tickers, current_year, prior_year, last_month) ==
    LET entries == [i \in DOMAIN tickers |->
                      [Ticker |-> tickers[i].Ticker,
                       current |-> get_ytd_for_comparison(tickers[i].df, current_year,
                                                          last_month),
                       prior |-> get_ytd_for_comparison(tickers[i].df, prior_year,
                                                        last_month)]]
        Keep(e) == HasPeriod(e.current, e.prior)
    IN SelectSeq(entries, Keep)

\* Faulty variant: no series counts as a return of zero.
FinalValueMutant(series) ==
    IF ~IsNone(series) /\ Len(series[1]) > 0
    THEN series[1][Len(series[1])].YTD
    ELSE Float(0)
\* series.iloc[-1] if series is not None and len(series) > 0 else np.nan
FinalValue(series) ==
    IF ~IsNone(series) /\ Len(series[1]) > 0
    THEN series[1][Len(series[1])].YTD
    ELSE NaN

\* Faulty variant: the prior return less the current one.
DifferenceMutant(current_return, prior_return) ==
    IF ~IsNaN(current_return) /\ ~IsNaN(prior_return)
    THEN Sub(prior_return, current_return)
    ELSE NaN
\* difference = current_return - prior_return, if neither is NaN
Difference(current_return, prior_return) ==
    IF ~IsNaN(current_return) /\ ~IsNaN(prior_return)
    THEN Sub(current_return, prior_return)
    ELSE NaN

\* rows: one dict per ticker of comparison_data, in its order.
ComparisonRows(entries) ==
    [i \in DOMAIN entries |->
       [Ticker |-> entries[i].Ticker,
        Current_Return |-> FinalValue(entries[i].current),
        Prior_Return |-> FinalValue(entries[i].prior),
        Difference |-> Difference(FinalValue(entries[i].current),
                                  FinalValue(entries[i].prior))]]

\* The orders in which sort_values('Current Return', ascending=False,
\* na_position='last') may leave the rows.  pandas sorts the non-NaN keys with
\* kind='quicksort', which is not stable: tied rows come out in either order.
\* The NaN rows are appended in their original order.
SortOrders(rows) ==
    {f \in [DOMAIN rows -> DOMAIN rows] :
        /\ \A i, j \in DOMAIN rows : i # j => f[i] # f[j]
        /\ \A i, j \in DOMAIN rows : i < j =>
              LET a == rows[f[i]].Current_Return
                  b == rows[f[j]].Current_Return
              IN /\ IsNaN(a) => IsNaN(b)
                 /\ ~FLt(a, b)
                 /\ (IsNaN(a) /\ IsNaN(b)) => f[i] < f[j]}

\* df.sort_values(...): the tables it may return.
SortValues(rows) ==
    UNION {{[i \in DOMAIN r |-> r[f[i]]] : f \in SortOrders(r)} : r \in {rows}}

\* pd.DataFrame([]) has no column 'Current Return': sort_values raises KeyError.
ComparisonStatisticsRaises(entries) == Len(entries) = 0

\* The tables calculate_comparison_statistics may return.
calculate_comparison_statistics(entries, current_year, prior_year, last_month, is_january) ==
    SortValues(ComparisonRows(entries))

----------------------------------------------------------------------------
(* src/utils/multi_ticker_analysis.py: format_comparison_table *)

\* month_names
MonthNames == <<"Jan", "Feb", "Mar", "Apr", "May", "Jun", "Jul", "Aug", "Sep", "Oct", "Nov", "Dec">>

\* The heading f"Full {year}".
FullLabel(year) == [period |-> "Full", year |-> year, through |-> None]
\* The heading f"YTD {year}\n(through {month_str})".
YtdLabel(year, month_str) == [period |-> "YTD", year |-> year, through |-> Some(month_str)]

\* current_period, prior_period
PeriodLabels(current_year, prior_year, last_month, is_january) ==
    IF is_january
    THEN [current |-> FullLabel(prior_year), prior |-> FullLabel(prior_year - 1)]
    ELSE [current |-> YtdLabel(current_year, MonthNames[last_month]),
          prior |-> YtdLabel(prior_year, MonthNames[last_month])]

\* x * 100 rounded to one decimal, counted in tenths of a percent: the nearest
\* integer to 1000 * |x|, a tie going to the even one.
Tenths(x) ==
    LET num == 1000 * Abs(x[1])
        floor == num \div x[2]
        rem == num % x[2]
    IN IF 2 * rem > x[2] THEN floor + 1
       ELSE IF 2 * rem < x[2] THEN floor
       ELSE IF floor % 2 = 0 THEN floor ELSE floor + 1

\* f"{x*100:.1f}%" if not np.isnan(x) else "N/A"
FormatReturn(x) ==
    IF IsNaN(x) THEN <<"N/A">>
    ELSE <<IF x[1] < 0 THEN "-" ELSE "", Tenths(x), "%">>
\* f"{x*100:+.1f}%" if not np.isnan(x) else "N/A"
FormatDifference(x) ==
    IF IsNaN(x) THEN <<"N/A">>
    ELSE <<IF x[1] < 0 THEN "-" ELSE "+", Tenths(x), "%">>

\* display_df: the four column headings and the rows of formatted cells.
format_comparison_table(stats, current_year, prior_year, last_month, is_january) ==
    LET labels == PeriodLabels(current_year, prior_year, last_month, is_january)
    IN [columns |-> <<"Ticker", labels.current, labels.prior, "Difference">>,
        rows |-> [i \in DOMAIN stats |->
                    <<stats[i].Ticker,
                      FormatReturn(stats[i].Current_Return),
                      FormatReturn(stats[i].Prior_Return),
                      FormatDifference(stats[i].Difference)>>]]

----------------------------------------------------------------------------
(* src/pages/1_Ticker_Comparison.py: the ticker list and the compare button;
   src/utils/data_fetcher.py: validate_ticker *)

\* if len(st.session_state.ticker_list) < 5
MaxSelected == 5
\* disabled=len(st.session_state.ticker_list) < 2
MinCompared == 2
\* if len(all_ytd_data) < 2, if len(comparison_data) < 2
MinValid == 2

\* Faulty variant: the add section is still offered to a full list.
UnderLimitMutant(list) == Len(list) <= MaxSelected
\* if len(st.session_state.ticker_list) < 5
UnderLimit(list) == Len(list) < MaxSelected

\* available_tickers: the popular tickers not already selected.
AvailableTickers(popular, list) == {t \in popular : t \notin Range(list)}

\* text_input(...).upper().strip() on the texts the model types.
UpperStrip(text) ==
    CASE text = "" -> ""
      [] text = "   " -> ""
      [] text = " spy " -> "SPY"
      [] text = "old" -> "OLD"
      [] text = "Gap " -> "GAP"
      [] text = "new" -> "NEW"
      [] text = "zzzz" -> "ZZZZ"

\* True when the ticker is not blank and the exchange knows the symbol.
validate_ticker(ticker, exchange) == ticker # "" /\ ticker \in DOMAIN exchange

\* What one press of the add button does to the list, and the message shown.
AddOutcome(new_ticker, list, exchange) ==
    IF new_ticker # "" /\ new_ticker \notin Range(list)
    THEN IF validate_ticker(new_ticker, exchange)
         THEN [list |-> Append(list, new_ticker), pc |-> "idle"]
         ELSE [list |-> list, pc |-> "invalid_ticker"]
    ELSE IF new_ticker \in Range(list)
    THEN [list |-> list, pc |-> "already_in_list"]
    ELSE [list |-> list, pc |-> "enter_ticker"]

\* st.session_state.ticker_list.pop(i)
Pop(list, i) == SubSeq(list, 1, i - 1) \o SubSeq(list, i + 1, Len(list))

\* Faulty variant: the bars are loaded from the baseline year itself.
PageStartYearMutant(baseline_year) == baseline_year
\* start_year = baseline_year - 1
PageStartYear(baseline_year) == baseline_year - 1

\* One pass of the loop over the selected tickers: the ticker fails when no
\* data is loaded or no observation is computed, else its table goes into
\* all_ytd_data.
TickerRun(ticker, w, exchange, now) ==
    LET start_year == PageStartYear(w.baseline_year)
        loaded == load_ticker_data(exchange[ticker], start_year, now, FALSE)
        ytd == IF NoData(loaded) THEN <<>>
               ELSE calculate_ytd_returns(loaded[1], start_year, w.compare_year, now)
    IN [Ticker |-> ticker, loaded |-> ~NoData(loaded),
        failed |-> NoData(loaded) \/ Len(ytd) = 0, df |-> ytd]

\* failed_tickers: the tickers that failed, in the order of the list.
FailedTickers(runs) ==
    LET Keep(r) == r.failed
        failed == SelectSeq(runs, Keep)
    IN [i \in DOMAIN failed |-> failed[i].Ticker]

\* all_ytd_data: a key per ticker that did not fail, in the order in which the
\* keys were first set.
LoadedTables(runs) ==
    LET first == {i \in DOMAIN runs :
                    /\ ~runs[i].failed
                    /\ \A j \in 1..(i - 1) : runs[j].failed \/ runs[j].Ticker # runs[i].Ticker}
        RECURSIVE Build(_)
        Build(i) == IF i > Len(runs) THEN <<>>
                    ELSE (IF i \in first
                          THEN <<[Ticker |-> runs[i].Ticker, df |-> runs[i].df]>>
                          ELSE <<>>) \o Build(i + 1)
    IN Build(1)

\* The functions one press of the compare button has called, in order.
CompareCalls(runs, loaded_count, prepared_count) ==
    <<"load_ticker_data">>
    \o (IF \E i \in DOMAIN runs : runs[i].loaded THEN <<"calculate_ytd_returns">> ELSE <<>>)
    \o (IF loaded_count >= MinValid THEN <<"prepare_comparison_data">> ELSE <<>>)
    \o (IF loaded_count >= MinValid /\ prepared_count >= MinValid
        THEN <<"calculate_comparison_statistics", "format_comparison_table">>
        ELSE <<>>)

----------------------------------------------------------------------------
(* Inputs *)

Cells == Years \X BarMonths
CellSets == {c \in SUBSET Cells : Cardinality(c) <= MaxBars}
BarSets == UNION {{ {[Year |-> x[1], Month |-> x[2], Close |-> f[x]] : x \in c}
                    : f \in [c -> Closes]} : c \in CellSets}
\* Price histories: at most one bar per month, ascending by date.  A history
\* may run past the clock: load_ticker_data hands out the part up to now, and
\* calculate_ytd_returns takes any table.
Markets == {SortByDate(b) : b \in BarSets}

LastYear == Max(Years)
Clock == [year : {LastYear}, month : Months]
\* The start years the page's number input offers (max_value = current_year - 1).
StartYears == {y \in Years : y <= LastYear - 1}

\* What the user and the network hand to one press of the analyze button: no
\* ticker, a ticker that does not validate, or a valid ticker with a start
\* year and a download that fails or not (2004 is the input's default).
AnalyzeInputs ==
    [ticker : {""}, valid : {FALSE}, start_year : {Min(StartYears)}, fails : {FALSE}]
    \cup [ticker : {"AAPL"}, valid : {FALSE}, start_year : {Min(StartYears)}, fails : {FALSE}]
    \cup [ticker : {"AAPL"}, valid : {TRUE}, start_year : StartYears, fails : BOOLEAN]

----------------------------------------------------------------------------
(* State machine: the clock, the price history and the callers *)

Init ==
    /\ today \in Clock
    /\ market \in Markets
    /\ pc = "idle"
    /\ invoked = <<>>
    /\ args = None
    /\ data = None
    /\ ytd_data = None
    /\ prepared = None
    /\ summary_stats = None
    /\ window = None
    /\ all_ytd_data = <<>>
    /\ comparison_data = None
    /\ stats_df = None
    /\ ticker_list = <<>>
    /\ failed_tickers = None
    /\ display_df = None

\* A month ends: datetime.now() moves to the next month.  The clock is read
\* only while a handler or call runs, so it advances between them.
Tick ==
    /\ pc = "idle"
    /\ DateOrd(today.year, today.month) < DateOrd(LastYear, December)
    /\ today' = IF today.month = December
                THEN [year |-> today.year + 1, month |-> January]
                ELSE [today EXCEPT !.month = @ + 1]
    /\ UNCHANGED <<market, pc, invoked, args, data, ytd_data, prepared,
                   summary_stats, window>>
    /\ UNCHANGED <<all_ytd_data, comparison_data, stats_df>>
    /\ UNCHANGED <<ticker_list, failed_tickers, display_df>>

\* A caller applies calculate_ytd_returns to the whole price history.
CallCalculate(start_year, end_year) ==
    /\ pc = "idle"
    /\ pc' = "returned"
    /\ invoked' = <<"calculate_ytd_returns">>
    /\ args' = Some([start_year |-> start_year, end_year |-> end_year, now |-> today])
    /\ data' = Some(market)
    /\ ytd_data' = Some(calculate_ytd_returns(market, start_year, end_year, today))
    /\ UNCHANGED <<today, market, prepared, summary_stats, window>>
    /\ UNCHANGED <<all_ytd_data, comparison_data, stats_df>>
    /\ UNCHANGED <<ticker_list, failed_tickers, display_df>>

\* The analyze button of the Historical YTD page: one run of the handler.
Analyze(ticker, valid, start_year, fails) ==
    /\ pc = "idle"
    /\ LET o == AnalyzeOutcome(ticker, valid, start_year, fails, market, today)
       IN /\ pc' = o.pc
          /\ invoked' = o.invoked
          /\ args' = o.args
          /\ data' = o.data
          /\ ytd_data' = o.ytd_data
          /\ prepared' = o.prepared
          /\ summary_stats' = o.summary_stats
    /\ UNCHANGED <<today, market, window>>
    /\ UNCHANGED <<all_ytd_data, comparison_data, stats_df>>
    /\ UNCHANGED <<ticker_list, failed_tickers, display_df>>

\* The result is dropped: the script reruns without the analyze button and the
\* main area is empty, or the caller of calculate_ytd_returns is done with it.
Rerun ==
    /\ pc # "idle"
    /\ pc' = "idle"
    /\ invoked' = <<>>
    /\ args' = None
    /\ data' = None
    /\ ytd_data' = None
    /\ prepared' = None
    /\ summary_stats' = None
    /\ UNCHANGED <<today, market, window>>
    /\ UNCHANGED <<all_ytd_data, comparison_data, stats_df>>
    /\ UNCHANGED <<ticker_list, failed_tickers, display_df>>

\* The Historical YTD page through the months of a year.
Next ==
    \/ Tick
    \/ \E i \in AnalyzeInputs : Analyze(i.ticker, i.valid, i.start_year, i.fails)
    \/ Rerun

Spec == Init /\ [][Next]_vars

\* calculate_ytd_returns applied to any price history and any range of years.
NextCalc ==
    \/ Tick
    \/ \E s \in Years, e \in Years : s <= e /\ CallCalculate(s, e)
    \/ Rerun

SpecCalc == Init /\ [][NextCalc]_vars

----------------------------------------------------------------------------
(* State machine: the Historical YTD page on the price history that closes
   at 100 in December 2023 and at 110, 99 and 120 in January, February and
   December 2024 *)

ScenarioBars ==
    <<[Year |-> 2023, Month |-> December, Close |-> 100],
      [Year |-> 2024, Month |-> January, Close |-> 110],
      [Year |-> 2024, Month |-> January + 1, Close |-> 99],
      [Year |-> 2024, Month |-> December, Close |-> 120]>>

\* The price source holds these bars or, where months are missing, some of them.
ScenarioMarkets == {SortByDate(b) : b \in SUBSET Range(ScenarioBars)}

InitScenario ==
    /\ today \in Clock
    /\ market \in ScenarioMarkets
    /\ pc = "idle"
    /\ invoked = <<>>
    /\ args = None
    /\ data = None
    /\ ytd_data = None
    /\ prepared = None
    /\ summary_stats = None
    /\ window = None
    /\ all_ytd_data = <<>>
    /\ comparison_data = None
    /\ stats_df = None
    /\ ticker_list = <<>>
    /\ failed_tickers = None
    /\ display_df = None

SpecScenario == InitScenario /\ [][Next]_vars

----------------------------------------------------------------------------
(* State machine: a caller applies calculate_ytd_returns to the same bars and
   range twice, some months apart *)

\* Bars around the turn of the clock's year.
TurnOfYearBars ==
    <<[Year |-> LastYear - 1, Month |-> December, Close |-> 1],
      [Year |-> LastYear, Month |-> January, Close |-> 2],
      [Year |-> LastYear, Month |-> January + 1, Close |-> 1],
      [Year |-> LastYear, Month |-> December, Close |-> 2]>>
TurnOfYearMarkets == {SortByDate(b) : b \in SUBSET Range(TurnOfYearBars)}

InitAgain ==
    /\ today \in Clock
    /\ market \in TurnOfYearMarkets
    /\ pc = "idle"
    /\ invoked = <<>>
    /\ args = None
    /\ data = None
    /\ ytd_data = None
    /\ prepared = None
    /\ summary_stats = None
    /\ window = None
    /\ all_ytd_data = <<>>
    /\ comparison_data = None
    /\ stats_df = None
    /\ ticker_list = <<>>
    /\ failed_tickers = None
    /\ display_df = None

\* A month ends while the caller holds the result of the first call.
TickHolding ==
    /\ invoked = <<"calculate_ytd_returns">>
    /\ DateOrd(today.year, today.month) < DateOrd(LastYear, December)
    /\ today' = IF today.month = December
                THEN [year |-> today.year + 1, month |-> January]
                ELSE [today EXCEPT !.month = @ + 1]
    /\ UNCHANGED <<market, pc, invoked, args, data, ytd_data, prepared,
                   summary_stats, window>>
    /\ UNCHANGED <<all_ytd_data, comparison_data, stats_df>>
    /\ UNCHANGED <<ticker_list, failed_tickers, display_df>>

\* The caller applies calculate_ytd_returns to the bars and the range of the
\* first call once more; line 43 reads datetime.now() again.
CallCalculateAgain ==
    /\ invoked = <<"calculate_ytd_returns">>
    /\ invoked' = <<"calculate_ytd_returns", "calculate_ytd_returns">>
    /\ args' = Some([start_year |-> args[1].start_year, end_year |-> args[1].end_year,
                     now |-> today])
    /\ ytd_data' = Some(calculate_ytd_returns(data[1], args[1].start_year,
                                              args[1].end_year, today))
    /\ UNCHANGED <<today, market, pc, data, prepared, summary_stats, window>>
    /\ UNCHANGED <<all_ytd_data, comparison_data, stats_df>>
    /\ UNCHANGED <<ticker_list, failed_tickers, display_df>>

NextAgain ==
    \/ Tick
    \/ \E s \in {LastYear - 1, LastYear}, e \in {LastYear - 1, LastYear} :
          s <= e /\ CallCalculate(s, e)
    \/ TickHolding
    \/ CallCalculateAgain
    \/ Rerun

SpecAgain == InitAgain /\ [][NextAgain]_vars

----------------------------------------------------------------------------
(* State machine: the clock and the comparison page's window *)

ResolverClock == [year : (LastYear - ResolverYears + 1)..LastYear, month : Months]

InitResolver ==
    /\ today \in ResolverClock
    /\ market = <<>>
    /\ pc = "idle"
    /\ invoked = <<>>
    /\ args = None
    /\ data = None
    /\ ytd_data = None
    /\ prepared = None
    /\ summary_stats = None
    /\ window = None
    /\ all_ytd_data = <<>>
    /\ comparison_data = None
    /\ stats_df = None
    /\ ticker_list = <<>>
    /\ failed_tickers = None
    /\ display_df = None

\* The comparison page's script runs: lines 52-60 resolve the window.
OpenComparisonPage ==
    /\ window' = Some(ComparisonWindow(today))
    /\ UNCHANGED <<today, market, pc, invoked, args, data, ytd_data, prepared,
                   summary_stats>>
    /\ UNCHANGED <<all_ytd_data, comparison_data, stats_df>>
    /\ UNCHANGED <<ticker_list, failed_tickers, display_df>>

NextResolver ==
    \/ Tick
    \/ OpenComparisonPage

SpecResolver == InitResolver /\ [][NextResolver]_vars

----------------------------------------------------------------------------
(* State machine: the series organizer applied to any observation table *)

\* YTD values of the modelled observation tables: -50%, +100% and NaN.
ObsValues == {NaN, <<-1, 2>>, <<1, 1>>}
\* Calendar years of the modelled observation tables.
ObsYears == {y \in Years : y > Min(Years)}
\* The organizer's callers hand it a table with rows: the page stops on an
\* empty one (2_Historical_YTD.py line 126).
ObsCellSets == {c \in SUBSET (ObsYears \X BarMonths) :
                   Cardinality(c) >= 1 /\ Cardinality(c) <= MaxObs}
ObsSets == UNION {{ {[Year |-> x[1], Month |-> x[2], Close |-> 1, YTD |-> f[x]] : x \in c}
                    : f \in [c -> ObsValues]} : c \in ObsCellSets}
\* Observation tables: at most one row per month, ascending by date.
ObsTables == {SortByDate(b) : b \in ObsSets}

InitStats ==
    /\ today = [year |-> LastYear, month |-> January]
    /\ market = <<>>
    /\ pc = "idle"
    /\ invoked = <<>>
    /\ args = None
    /\ data = None
    /\ ytd_data \in {Some(t) : t \in ObsTables}
    /\ prepared = None
    /\ summary_stats = None
    /\ window = None
    /\ all_ytd_data = <<>>
    /\ comparison_data = None
    /\ stats_df = None
    /\ ticker_list = <<>>
    /\ failed_tickers = None
    /\ display_df = None

\* A caller applies prepare_ytd_series to the table.
CallPrepare(current_year) ==
    /\ pc = "idle"
    /\ invoked' = <<"prepare_ytd_series">>
    /\ args' = Some([current_year |-> current_year])
    /\ IF PrepareRaises(ytd_data[1])
       THEN pc' = "exception" /\ prepared' = None
       ELSE pc' = "returned" /\ prepared' = Some(prepare_ytd_series(ytd_data[1], current_year))
    /\ UNCHANGED <<today, market, data, ytd_data, summary_stats, window>>
    /\ UNCHANGED <<all_ytd_data, comparison_data, stats_df>>
    /\ UNCHANGED <<ticker_list, failed_tickers, display_df>>

\* A caller applies get_summary_statistics to the table's series by year.
CallStats(highlight_year, last_month_highlight) ==
    /\ pc = "idle"
    /\ invoked' = <<"get_summary_statistics">>
    /\ args' = Some([highlight_year |-> highlight_year,
                     last_month_highlight |-> last_month_highlight])
    /\ IF StatsRaises(YtdByYear(ytd_data[1]))
       THEN pc' = "exception" /\ summary_stats' = None
       ELSE /\ pc' = "returned"
            /\ summary_stats' = Some(get_summary_statistics(
                   YtdByYear(ytd_data[1]), highlight_year, last_month_highlight))
    /\ UNCHANGED <<today, market, data, ytd_data, prepared, window>>
    /\ UNCHANGED <<all_ytd_data, comparison_data, stats_df>>
    /\ UNCHANGED <<ticker_list, failed_tickers, display_df>>

\* A caller applies prepare_ytd_series and hands what it returns to
\* get_summary_statistics, as the page does (2_Historical_YTD.py lines 130-136).
CallOrganize(current_year) ==
    /\ pc = "idle"
    /\ invoked' = <<"prepare_ytd_series", "get_summary_statistics">>
    /\ IF PrepareRaises(ytd_data[1])
       THEN pc' = "exception" /\ args' = None /\ prepared' = None /\ summary_stats' = None
       ELSE LET prep == prepare_ytd_series(ytd_data[1], current_year)
            IN /\ pc' = "returned"
               /\ args' = Some([current_year |-> current_year,
                                highlight_year |-> prep.highlight_year,
                                last_month_highlight |-> prep.last_month_highlight])
               /\ prepared' = Some(prep)
               /\ summary_stats' = Some(get_summary_statistics(
                      prep.ytd_by_year, prep.highlight_year, prep.last_month_highlight))
    /\ UNCHANGED <<today, market, data, ytd_data, window>>
    /\ UNCHANGED <<all_ytd_data, comparison_data, stats_df>>
    /\ UNCHANGED <<ticker_list, failed_tickers, display_df>>

\* The caller drops the result.
Discard ==
    /\ pc # "idle"
    /\ pc' = "idle"
    /\ invoked' = <<>>
    /\ args' = None
    /\ prepared' = None
    /\ summary_stats' = None
    /\ UNCHANGED <<today, market, data, ytd_data, window>>
    /\ UNCHANGED <<all_ytd_data, comparison_data, stats_df>>
    /\ UNCHANGED <<ticker_list, failed_tickers, display_df>>

NextStats ==
    \/ \E y \in ObsYears : CallPrepare(y)
    \/ \E y \in ObsYears, m \in BarMonths : CallStats(y, m)
    \/ \E y \in ObsYears : CallOrganize(y)
    \/ Discard

SpecStats == InitStats /\ [][NextStats]_vars

----------------------------------------------------------------------------
(* State machine: the comparator applied to any tickers' observation tables *)

\* The tickers, in the order of the dict all_ytd_data.
TickerNames == <<"AAPL", "MSFT", "GOOGL", "AMZN", "META">>
\* The comparison year and the year before, January and February.
TickerCells == {LastYear - 1, LastYear} \X {January, January + 1}
\* YTD values of the modelled tables: 0% or +5% in a month of the comparison
\* year, +2% in January and +1% in February of the year before.
TickerValues(cell) ==
    IF cell[1] = LastYear THEN {<<0, 1>>, <<1, 20>>}
    ELSE IF cell[2] = January THEN {<<1, 50>>} ELSE {<<1, 100>>}
\* A ticker's table has rows: the page leaves out a ticker whose table is
\* empty (1_Ticker_Comparison.py line 201).
TickerCellSets == {c \in SUBSET TickerCells :
                      Cardinality(c) >= 1 /\ Cardinality(c) <= MaxTickerRows}
TickerSets ==
    UNION {{ {[Year |-> x[1], Month |-> x[2], Close |-> 1, YTD |-> f[x]] : x \in c}
             : f \in {g \in [c -> UNION {TickerValues(x) : x \in c}] :
                        \A x \in c : g[x] \in TickerValues(x)}}
           : c \in TickerCellSets}
\* One ticker's observation table: at most one row per month, ascending by date.
TickerTables == {SortByDate(b) : b \in TickerSets}
\* The page is opened in January, February or March.
CompareClock == [year : {LastYear}, month : {January, January + 1, January + 2}]

InitCompare ==
    /\ today \in CompareClock
    /\ market = <<>>
    /\ pc = "idle"
    /\ invoked = <<>>
    /\ args = None
    /\ data = None
    /\ ytd_data = None
    /\ prepared = None
    /\ summary_stats = None
    /\ window = None
    /\ all_ytd_data = <<>>
    /\ comparison_data = None
    /\ stats_df = None
    /\ ticker_list = <<>>
    /\ failed_tickers = None
    /\ display_df = None

\* all_ytd_data[ticker] = ytd_data: the caller puts the next ticker's table
\* into the dict.
PutTicker(df) ==
    /\ pc = "idle"
    /\ Len(all_ytd_data) < MaxTickers
    /\ all_ytd_data' = Append(all_ytd_data,
                              [Ticker |-> TickerNames[Len(all_ytd_data) + 1], df |-> df])
    /\ UNCHANGED <<today, market, pc, invoked, args, data, ytd_data, prepared,
                   summary_stats, window, comparison_data, stats_df>>
    /\ UNCHANGED <<ticker_list, failed_tickers, display_df>>

\* A caller applies prepare_comparison_data to the tables and
\* calculate_comparison_statistics to what it returns, with the years and the
\* month of the page's window (1_Ticker_Comparison.py lines 217-251).
CallComparator ==
    /\ pc = "idle"
    /\ \E w \in {ComparisonWindow(today)} :
       \E entries \in {prepare_comparison_data(all_ytd_data, w.compare_year,
                                               w.baseline_year, w.last_month)} :
          /\ invoked' = <<"prepare_comparison_data", "calculate_comparison_statistics">>
          /\ args' = Some([current_year |-> w.compare_year,
                           prior_year |-> w.baseline_year,
                           last_month |-> w.last_month,
                           is_january |-> w.is_january])
          /\ comparison_data' = Some(entries)
          /\ IF ComparisonStatisticsRaises(entries)
             THEN pc' = "exception" /\ stats_df' = None
             ELSE /\ pc' = "returned"
                  /\ \E df \in calculate_comparison_statistics(
                                    entries, w.compare_year, w.baseline_year,
                                    w.last_month, w.is_january) :
                        stats_df' = Some(df)
    /\ UNCHANGED <<today, market, data, ytd_data, prepared, summary_stats, window,
                   all_ytd_data>>
    /\ UNCHANGED <<ticker_list, failed_tickers, display_df>>

\* The caller drops the result.
DiscardComparison ==
    /\ pc # "idle"
    /\ pc' = "idle"
    /\ invoked' = <<>>
    /\ args' = None
    /\ comparison_data' = None
    /\ stats_df' = None
    /\ UNCHANGED <<today, market, data, ytd_data, prepared, summary_stats, window,
                   all_ytd_data>>
    /\ UNCHANGED <<ticker_list, failed_tickers, display_df>>

NextCompare ==
    \/ \E df \in TickerTables : PutTicker(df)
    \/ CallComparator
    \/ DiscardComparison

SpecCompare == InitCompare /\ [][NextCompare]_vars

----------------------------------------------------------------------------
(* State machine: the comparison page (1_Ticker_Comparison.py) *)

\* Three of the symbols get_all_popular_tickers() offers.
PopularTickers == {"DIA", "QQQ", "SPY"}
\* Texts typed into the custom ticker field.
TypedTexts == {"", "   ", " spy ", "old", "Gap ", "new", "zzzz"}

\* The i-th month on the calendar, counted from January of the first year.
BarAt(i, close) ==
    [Year |-> Min(Years) + ((i - 1) \div December), Month |-> ((i - 1) % December) + 1,
     Close |-> close]
\* A bar in each of the first n months, the closes going through a cycle of
\* five powers of two in steps of pace.
EveryMonth(n, pace) == [i \in 1..n |-> BarAt(i, 2 ^ ((i * pace) % 5))]
\* The months from January of the first year to March of the last one.
MonthsToDate == (LastYear - Min(Years)) * December + January + 2

\* The price histories behind the symbols the exchange knows: three funds with
\* a bar in every month; OLD, whose bars end in January of the last year; GAP,
\* which traded in the Decembers only; NEW, listed in February of the last
\* year.  ZZZZ is no symbol.
PageExchange ==
    [t \in PopularTickers \cup {"OLD", "GAP", "NEW"} |->
       CASE t = "SPY" -> EveryMonth(MonthsToDate, 1)
         [] t = "QQQ" -> EveryMonth(MonthsToDate, 2)
         [] t = "DIA" -> EveryMonth(MonthsToDate, 3)
         [] t = "OLD" -> EveryMonth(MonthsToDate - 2, 5)
         [] t = "GAP" -> [y \in 1..(LastYear - Min(Years)) |->
                            [Year |-> Min(Years) + y - 1, Month |-> December, Close |-> y]]
         [] t = "NEW" -> <<[Year |-> LastYear, Month |-> January + 1, Close |-> 1],
                           [Year |-> LastYear, Month |-> January + 2, Close |-> 2]>>]

\* The page has been opened: the script has run once, the list is empty and
\* nothing is shown in the main area.
InitPage ==
    /\ today \in CompareClock
    /\ market = PageExchange
    /\ pc = "idle"
    /\ invoked = <<>>
    /\ args = None
    /\ data = None
    /\ ytd_data = None
    /\ prepared = None
    /\ summary_stats = None
    /\ window = Some(ComparisonWindow(today))
    /\ all_ytd_data = <<>>
    /\ comparison_data = None
    /\ stats_df = None
    /\ ticker_list = <<>>
    /\ failed_tickers = None
    /\ display_df = None

\* The add button is pressed with new_ticker chosen or typed (lines 94-142).
\* A ticker that is appended makes the script run again, with no button
\* pressed; otherwise the run shows its message.
AddTicker(new_ticker) ==
    /\ UnderLimit(ticker_list)
    /\ \E out \in {AddOutcome(new_ticker, ticker_list, market)} :
          /\ ticker_list' = out.list
          /\ pc' = out.pc
    /\ invoked' = <<>>
    /\ args' = None
    /\ all_ytd_data' = <<>>
    /\ comparison_data' = None
    /\ stats_df' = None
    /\ failed_tickers' = None
    /\ display_df' = None
    /\ UNCHANGED <<today, market, data, ytd_data, prepared, summary_stats, window>>

\* The remove button of the i-th ticker is pressed (lines 82-89).
RemoveTicker(i) ==
    /\ i \in DOMAIN ticker_list
    /\ ticker_list' = Pop(ticker_list, i)
    /\ pc' = "idle"
    /\ invoked' = <<>>
    /\ args' = None
    /\ all_ytd_data' = <<>>
    /\ comparison_data' = None
    /\ stats_df' = None
    /\ failed_tickers' = None
    /\ display_df' = None
    /\ UNCHANGED <<today, market, data, ytd_data, prepared, summary_stats, window>>

\* The clear button is pressed (lines 147-150).
ClearAll ==
    /\ Len(ticker_list) > 0
    /\ ticker_list' = <<>>
    /\ pc' = "idle"
    /\ invoked' = <<>>
    /\ args' = None
    /\ all_ytd_data' = <<>>
    /\ comparison_data' = None
    /\ stats_df' = None
    /\ failed_tickers' = None
    /\ display_df' = None
    /\ UNCHANGED <<today, market, data, ytd_data, prepared, summary_stats, window>>

\* The compare button, enabled for a list of two or more, is pressed (lines
\* 155-259): every ticker is loaded and put through calculate_ytd_returns, the
\* warning names the failed ones, and with two or more tickers left after
\* loading and after prepare_comparison_data the table is shown.
Compare ==
    /\ Len(ticker_list) >= MinCompared
    /\ \E w \in {ComparisonWindow(today)} :
       \E runs \in {[i \in DOMAIN ticker_list |->
                       TickerRun(ticker_list[i], w, market, today)]} :
       \E tables \in {LoadedTables(runs)} :
       \E entries \in {prepare_comparison_data(tables, w.compare_year, w.baseline_year,
                                               w.last_month)} :
          /\ invoked' = CompareCalls(runs, Len(tables), Len(entries))
          /\ args' = Some([current_year |-> w.compare_year,
                           prior_year |-> w.baseline_year,
                           last_month |-> w.last_month,
                           is_january |-> w.is_january])
          /\ failed_tickers' = Some(FailedTickers(runs))
          /\ all_ytd_data' = tables
          /\ IF Len(tables) < MinValid
             THEN /\ pc' = "need_two_valid"
                  /\ comparison_data' = None
                  /\ stats_df' = None
                  /\ display_df' = None
             ELSE IF Len(entries) < MinValid
             THEN /\ pc' = "insufficient"
                  /\ comparison_data' = Some(entries)
                  /\ stats_df' = None
                  /\ display_df' = None
             ELSE /\ pc' = "displayed"
                  /\ comparison_data' = Some(entries)
                  /\ \E df \in calculate_comparison_statistics(
                                    entries, w.compare_year, w.baseline_year,
                                    w.last_month, w.is_january) :
                        /\ stats_df' = Some(df)
                        /\ display_df' = Some(format_comparison_table(
                                                  df, w.compare_year, w.baseline_year,
                                                  w.last_month, w.is_january))
    /\ UNCHANGED <<today, market, data, ytd_data, prepared, summary_stats, window,
                   ticker_list>>

\* The script runs again with no button pressed: the main area is empty.
RerunPage ==
    /\ pc # "idle"
    /\ pc' = "idle"
    /\ invoked' = <<>>
    /\ args' = None
    /\ all_ytd_data' = <<>>
    /\ comparison_data' = None
    /\ stats_df' = None
    /\ failed_tickers' = None
    /\ display_df' = None
    /\ UNCHANGED <<today, market, data, ytd_data, prepared, summary_stats, window,
                   ticker_list>>

NextPage ==
    \/ \E t \in AvailableTickers(PopularTickers, ticker_list) : AddTicker(t)
    \/ \E text \in TypedTexts : AddTicker(UpperStrip(text))
    \/ \E i \in DOMAIN ticker_list : RemoveTicker(i)
    \/ ClearAll
    \/ Compare
    \/ RerunPage

SpecPage == InitPage /\ [][NextPage]_vars

----------------------------------------------------------------------------
(* Properties of the YTD return calculator (SpecCalc) *)

\* calculate_ytd_returns has run on the bars in data with the arguments in args.
Calculated == "calculate_ytd_returns" \in Range(invoked)
InputBars == IF IsNone(data) THEN {} ELSE Range(data[1])
Observations == ytd_data[1]
StartYear == args[1].start_year
EndYear == args[1].end_year
Now == args[1].now

\* The input has a December bar for the year.
HasDecemberBar(year) == \E b \in InputBars : b.Year = year /\ b.Month = December
\* The bar is in the requested range and not of the month in progress or later.
Remains(b) ==
    /\ b.Year >= StartYear /\ b.Year <= EndYear
    /\ ~(EndYear = Now.year /\ b.Year = EndYear /\ b.Month >= Now.month)
\* The number of observations emitted for the bar's month.
Emitted(b) ==
    Cardinality({i \in DOMAIN Observations :
                   Observations[i].Year = b.Year /\ Observations[i].Month = b.Month})

\* C1: every observation calculate_ytd_returns emits for (year, month) has the
\* YTD value close(year, month) / close(year-1, December) - 1, both closes
\* being those of the input bars.
C1_YtdFormula ==
    Calculated =>
        \A r \in Range(Observations) :
            \E b \in InputBars, dec \in InputBars :
                /\ b.Year = r.Year /\ b.Month = r.Month /\ b.Close = r.Close
                /\ dec.Year = r.Year - 1 /\ dec.Month = December
                /\ ~IsNaN(r.YTD)
                /\ r.YTD[1] * dec.Close = (b.Close - dec.Close) * r.YTD[2]

\* An observation with a non-zero return has been emitted.
C1_Witness ==
    Calculated /\ \E r \in Range(Observations) : ~IsNaN(r.YTD) /\ r.YTD[1] # 0

\* C4: when end_year is the current calendar year, no observation is emitted
\* for a month of that year that is the current month or later, no such bar
\* serves as the December baseline of an observation, and the bars of earlier
\* years that have a baseline are all emitted.
C4_NoInProgressMonth ==
    (Calculated /\ EndYear = Now.year) =>
        /\ \A r \in Range(Observations) :
              /\ ~(r.Year = Now.year /\ r.Month >= Now.month)
              /\ ~(r.Year - 1 = Now.year /\ December >= Now.month)
        /\ \A b \in InputBars :
              (/\ b.Year > StartYear /\ b.Year < EndYear
               /\ HasDecemberBar(b.Year - 1)) => Emitted(b) = 1

\* The input holds a bar of the month in progress that has a December baseline,
\* and a completed month of the same year is emitted.
C4_Witness ==
    /\ Calculated /\ EndYear = Now.year
    /\ \E b \in InputBars :
          /\ b.Year = Now.year /\ b.Month = Now.month
          /\ StartYear < b.Year /\ HasDecemberBar(b.Year - 1)
    /\ \E r \in Range(Observations) : r.Year = Now.year

\* C5: no observation is emitted for a year whose previous year has no
\* December bar, and no emitted row has a missing YTD value.
C5_NoBaselineNoRow ==
    Calculated =>
        \A r \in Range(Observations) : HasDecemberBar(r.Year - 1) /\ ~IsNaN(r.YTD)

\* A bar that remains has no December baseline while another bar is emitted.
C5_Witness ==
    /\ Calculated
    /\ \E b \in InputBars : Remains(b) /\ ~HasDecemberBar(b.Year - 1) /\ Emitted(b) = 0
    /\ Len(Observations) > 0

\* C6 as stated: for every year y of [start_year, end_year] whose previous
\* December bar is in the input, each remaining bar of y yields exactly one
\* observation.
C6_Original ==
    Calculated =>
        \A b \in InputBars :
            (Remains(b) /\ HasDecemberBar(b.Year - 1)) => Emitted(b) = 1

\* C6 amended: the same for every year y with start_year < y <= end_year.
C6_EveryBarOneRow ==
    Calculated =>
        \A b \in InputBars :
            (Remains(b) /\ b.Year > StartYear /\ HasDecemberBar(b.Year - 1))
                => Emitted(b) = 1

\* A history that starts mid-year: its first year has no baseline, the next has.
C6_Witness ==
    /\ Calculated
    /\ \E b \in InputBars, first \in InputBars :
          /\ Remains(b) /\ b.Year > StartYear /\ HasDecemberBar(b.Year - 1)
          /\ Emitted(b) = 1
          /\ first.Year = b.Year - 1 /\ ~HasDecemberBar(first.Year - 1)
          /\ \A q \in InputBars : DateOrd(first.Year, first.Month) <= DateOrd(q.Year, q.Month)

\* No bar of the input lies in the requested range.
NoBarInRange == \A b \in InputBars : b.Year < StartYear \/ b.Year > EndYear

----------------------------------------------------------------------------
(* Properties of the Historical YTD page (Spec) *)

\* The analyze handler got past the ticker checks.
Loaded == "load_ticker_data" \in Range(invoked)

\* C8: when the ticker has no bars in the requested range or no computable
\* observation, the flow ends in a no-data error and neither prepare_ytd_series
\* nor get_summary_statistics runs: there are no statistics.
C8_NoPartialStatistics ==
    (Loaded /\ (InputBars = {} \/ ~Calculated \/ Len(Observations) = 0)) =>
        /\ pc \in {"no_data", "insufficient"}
        /\ "prepare_ytd_series" \notin Range(invoked)
        /\ "get_summary_statistics" \notin Range(invoked)
        /\ prepared = None
        /\ summary_stats = None

\* The download succeeded and no bar has a baseline.
C8_Witness ==
    /\ Loaded /\ InputBars # {} /\ Calculated /\ Len(Observations) = 0
    /\ pc = "insufficient"

----------------------------------------------------------------------------
(* Properties of the calendar window resolver (SpecResolver) *)

Window == window[1]

\* C2: in January of year Y the window is (Y, Y-1, 12, true) and the baseline
\* year is Y-2.
C2_JanuaryWindow ==
    (~IsNone(window) /\ Window.now.month = January) =>
        /\ Window.current_year = Window.now.year
        /\ Window.compare_year = Window.now.year - 1
        /\ Window.prior_year = Window.now.year - 1
        /\ Window.last_month = December
        /\ Window.is_january = TRUE
        /\ Window.baseline_year = Window.now.year - 2

\* The page has run in a January.
C2_Witness == ~IsNone(window) /\ Window.now.month = January

\* C3: in month M > 1 of year Y the window is (Y, Y, M-1, false), the baseline
\* year is Y-1, and the current month is not in the window.
C3_OtherMonthsWindow ==
    (~IsNone(window) /\ Window.now.month # January) =>
        /\ Window.current_year = Window.now.year
        /\ Window.compare_year = Window.now.year
        /\ Window.last_month = Window.now.month - 1
        /\ Window.last_month < Window.now.month
        /\ Window.is_january = FALSE
        /\ Window.baseline_year = Window.now.year - 1

\* The page has run in a March.
C3_Witness == ~IsNone(window) /\ Window.now.month = January + 2

----------------------------------------------------------------------------
(* Properties of the series organizer (SpecStats) *)

ObsRows == Range(ytd_data[1])
ObsYearsPresent == {r.Year : r \in ObsRows}

\* C9: on a non-empty table prepare_ytd_series highlights current_year when an
\* observation has that year and the greatest year present otherwise, and
\* last_month_highlight is the greatest month present in the highlighted year.
C9_HighlightedYear ==
    (invoked = <<"prepare_ytd_series">> /\ ObsRows # {}) =>
        /\ pc = "returned"
        /\ ~IsNone(prepared)
        /\ LET current_year == args[1].current_year
               highlight_year == prepared[1].highlight_year
               last_month == prepared[1].last_month_highlight
           IN /\ current_year \in ObsYearsPresent => highlight_year = current_year
              /\ current_year \notin ObsYearsPresent =>
                    /\ highlight_year \in ObsYearsPresent
                    /\ \A y \in ObsYearsPresent : y <= highlight_year
              /\ \E r \in ObsRows : r.Year = highlight_year /\ r.Month = last_month
              /\ \A r \in ObsRows : r.Year = highlight_year => r.Month <= last_month

\* current_year has observations in two months and is not the greatest year.
C9_Witness ==
    /\ invoked = <<"prepare_ytd_series">> /\ ~IsNone(prepared)
    /\ args[1].current_year \in ObsYearsPresent
    /\ \E y \in ObsYearsPresent : y > args[1].current_year
    /\ \E r \in ObsRows : r.Year = prepared[1].highlight_year
                          /\ r.Month < prepared[1].last_month_highlight

\* The year has a December value in the table.
HasDecemberValue(year) ==
    \E r \in ObsRows : r.Year = year /\ r.Month = December /\ ~IsNaN(r.YTD)
DecemberValue(year) ==
    (CHOOSE r \in ObsRows : r.Year = year /\ r.Month = December).YTD

RECURSIVE SumOfDecembers(_)
SumOfDecembers(ys) ==
    IF ys = {} THEN Float(0)
    ELSE LET y == CHOOSE y \in ys : TRUE
         IN Add(DecemberValue(y), SumOfDecembers(ys \ {y}))

\* The years whose December value is to be in the pool of the average.
ExpectedPool ==
    {y \in ObsYearsPresent :
        /\ HasDecemberValue(y)
        /\ ~(y = args[1].highlight_year /\ args[1].last_month_highlight < December)}

\* C10: a year's December value is in the pool of the historical average
\* exactly when it exists and the year is not the highlighted year with
\* last_month_highlight < 12: n_years counts these years and the average is
\* their mean.
C10_PoolMembership ==
    (invoked = <<"get_summary_statistics">> /\ ~IsNone(summary_stats)) =>
        /\ summary_stats[1].n_years = Cardinality(ExpectedPool)
        /\ ExpectedPool = {} => IsNaN(summary_stats[1].avg_full_year_ytd)
        /\ ExpectedPool # {} =>
              FEq(Mul(summary_stats[1].avg_full_year_ytd, Float(Cardinality(ExpectedPool))),
                  SumOfDecembers(ExpectedPool))

\* The highlighted year is complete and in the pool with another year.
C10_Witness ==
    /\ invoked = <<"get_summary_statistics">> /\ ~IsNone(summary_stats)
    /\ args[1].last_month_highlight = December
    /\ args[1].highlight_year \in ExpectedPool
    /\ summary_stats[1].n_years = 2

----------------------------------------------------------------------------
(* Properties of the summary statistics *)

StatsCalled == "get_summary_statistics" \in Range(invoked)
Stats == summary_stats[1]

\* The three observations of the scenario: +10%, -1% and +20% of 2024.
ScenarioObservations ==
    <<[Year |-> 2024, Month |-> January, YTD |-> <<1, 10>>],
      [Year |-> 2024, Month |-> January + 1, YTD |-> <<-1, 100>>],
      [Year |-> 2024, Month |-> December, YTD |-> <<1, 5>>]>>
\* The page has loaded the whole scenario and shown its statistics.
ScenarioShown == pc = "displayed" /\ data = Some(ScenarioBars)
ScenarioYtd == [i \in DOMAIN ytd_data[1] |->
                  [Year |-> ytd_data[1][i].Year, Month |-> ytd_data[1][i].Month,
                   YTD |-> ytd_data[1][i].YTD]]
ScenarioBestWorst ==
    /\ ScenarioYtd = ScenarioObservations
    /\ Stats.highlight_year = 2024 /\ Stats.last_month_highlight = December
    /\ Stats.best_year = Some(2024) /\ Stats.best_return = Some(<<1, 5>>)
    /\ Stats.worst_year = Some(2024) /\ Stats.worst_return = Some(<<1, 5>>)

\* C11 as the specification words it: for the scenario's observations, with
\* highlighted year 2024 and last completed month 12, best and worst year are
\* 2024 at +20%, the historical average is null and n_years is 0.
C11_Original ==
    ScenarioShown =>
        /\ ScenarioBestWorst
        /\ IsNaN(Stats.avg_full_year_ytd)
        /\ Stats.n_years = 0

\* C11: for the scenario's observations, with highlighted year 2024 and last
\* completed month 12, best and worst year are 2024 at +20%; 2024 has its
\* December value and is in the pool, so the historical average is +20%,
\* n_years is 1 and the standard deviation is NaN.
C11_ScenarioStatistics ==
    ScenarioShown =>
        /\ ScenarioBestWorst
        /\ Stats.avg_full_year_ytd = <<1, 5>>
        /\ Stats.n_years = 1
        /\ IsNaN(Stats.std_full_year_ytd)

\* The page shows the statistics of the whole scenario.
C11_Witness == ScenarioShown /\ Stats.highlight_year = 2024 /\ Stats.n_years = 1

\* C12: historical_stdev is NaN exactly when fewer than two December values
\* are in the pool and historical_average is NaN, never 0, exactly when the
\* pool is empty.
C12_NullsOfSmallPools ==
    (StatsCalled /\ ~IsNone(summary_stats)) =>
        /\ IsNaN(Stats.std_full_year_ytd) <=> Cardinality(ExpectedPool) < 2
        /\ IsNaN(Stats.avg_full_year_ytd) <=> ExpectedPool = {}
        /\ ExpectedPool = {} => Stats.avg_full_year_ytd # Float(0)

\* The table has December values, all of the highlighted year that is left
\* out: the pool is empty.
C12_Witness ==
    /\ StatsCalled /\ ~IsNone(summary_stats)
    /\ ExpectedPool = {}
    /\ \E y \in ObsYearsPresent : HasDecemberValue(y)
    /\ IsNaN(Stats.avg_full_year_ytd) /\ IsNaN(Stats.std_full_year_ytd)

\* The years that have a December value.
YearEndPresent == {y \in ObsYearsPresent : HasDecemberValue(y)}
\* The years whose December value no other year's exceeds, or falls below.
GreatestYears == {y \in YearEndPresent :
                    \A z \in YearEndPresent : ~FLt(DecemberValue(y), DecemberValue(z))}
LeastYears == {y \in YearEndPresent :
                 \A z \in YearEndPresent : ~FLt(DecemberValue(z), DecemberValue(y))}

\* C13: best_year and worst_year are the years of the greatest and the least
\* December value among the years that have one, the smallest such year on a
\* tie, and best_return and worst_return are those values.
C13_BestAndWorstYear ==
    (StatsCalled /\ ~IsNone(summary_stats) /\ YearEndPresent # {}) =>
        /\ Stats.best_year = Some(Min(GreatestYears))
        /\ Stats.best_return = Some(DecemberValue(Min(GreatestYears)))
        /\ Stats.worst_year = Some(Min(LeastYears))
        /\ Stats.worst_return = Some(DecemberValue(Min(LeastYears)))

\* Two years tie for the best December value above a third.
C13_Witness ==
    /\ StatsCalled /\ ~IsNone(summary_stats)
    /\ Cardinality(GreatestYears) = 2
    /\ Cardinality(YearEndPresent) = 3
    /\ Stats.best_year = Some(Min(GreatestYears))
    /\ Stats.worst_year # Stats.best_year

Organized == invoked = <<"prepare_ytd_series", "get_summary_statistics">>

----------------------------------------------------------------------------
(* Properties of the comparator (SpecCompare) *)

ComparatorCalled == "prepare_comparison_data" \in Range(invoked)
Entries == comparison_data[1]
StatsRows == IF IsNone(stats_df) THEN <<>> ELSE stats_df[1]
LastMonth == args[1].last_month

\* The observations of the ticker's table in the year, as (month, value).
ObservationsOf(ticker, year) ==
    {[Month |-> r.Month, YTD |-> r.YTD] :
        r \in {q \in UNION {Range(t.df) : t \in {u \in Range(all_ytd_data) :
                                                   u.Ticker = ticker}} :
                 q.Year = year}}
\* The observations a series holds; none when the series is None.
SeriesSet(series) == IF IsNone(series) THEN {} ELSE Range(series[1])
SeriesLen(series) == IF IsNone(series) THEN 0 ELSE Len(series[1])

\* The series holds each observation of the year up to last_month once, and
\* nothing else.
TruncatedTo(series, ticker, year) ==
    /\ SeriesSet(series) = {o \in ObservationsOf(ticker, year) : o.Month <= LastMonth}
    /\ SeriesLen(series) = Cardinality(SeriesSet(series))

\* C16: every current and prior series of prepare_comparison_data holds exactly
\* the observations of its year with month <= last_month: none beyond
\* last_month, none missing at or below it.
C16_TruncatedSeries ==
    ComparatorCalled =>
        \A e \in Range(Entries) :
            /\ TruncatedTo(e.current, e.Ticker, args[1].current_year)
            /\ TruncatedTo(e.prior, e.Ticker, args[1].prior_year)

\* One observation of the comparison year is kept and a later one cut off.
C16_Witness ==
    /\ ComparatorCalled
    /\ \E e \in Range(Entries) :
          /\ SeriesLen(e.current) = 1
          /\ \E o \in SeriesSet(e.current) : o.Month = LastMonth
          /\ \E o \in ObservationsOf(e.Ticker, args[1].current_year) : o.Month > LastMonth

\* The ticker has an observation of one of the two years up to last_month.
HasTruncatedSeries(ticker) ==
    \E y \in {args[1].current_year, args[1].prior_year} :
        \E o \in ObservationsOf(ticker, y) : o.Month <= LastMonth

\* C17: a ticker of the input is in the output of prepare_comparison_data
\* exactly when its current or its prior truncated series is non-empty, once,
\* and the output holds no other ticker.
C17_TickerIncluded ==
    ComparatorCalled =>
        /\ \A t \in Range(all_ytd_data) :
              Cardinality({i \in DOMAIN Entries : Entries[i].Ticker = t.Ticker})
                 = IF HasTruncatedSeries(t.Ticker) THEN 1 ELSE 0
        /\ \A e \in Range(Entries) : \E t \in Range(all_ytd_data) : t.Ticker = e.Ticker

\* A ticker is kept on its prior series alone and another one is left out.
C17_Witness ==
    /\ ComparatorCalled
    /\ \E e \in Range(Entries) : IsNone(e.current) /\ ~IsNone(e.prior)
    /\ \E t \in Range(all_ytd_data) : \A e \in Range(Entries) : e.Ticker # t.Ticker

\* The return the table is to show for a series: its last value, NaN for none.
ShowsLastValue(value, series) ==
    IF SeriesLen(series) = 0
    THEN IsNaN(value) /\ value # Float(0)
    ELSE value = series[1][Len(series[1])].YTD

\* C18: the table of calculate_comparison_statistics has exactly one row per
\* ticker of comparison_data; its current and prior return are the last value
\* of the truncated series, and NaN, never 0.0, where the series is absent or
\* empty.
C18_OneRowPerTicker ==
    ComparatorCalled =>
        /\ Len(StatsRows) = Len(Entries)
        /\ \A e \in Range(Entries) :
              \E i \in DOMAIN StatsRows :
                 /\ StatsRows[i].Ticker = e.Ticker
                 /\ \A j \in DOMAIN StatsRows : StatsRows[j].Ticker = e.Ticker => j = i
                 /\ ShowsLastValue(StatsRows[i].Current_Return, e.current)
                 /\ ShowsLastValue(StatsRows[i].Prior_Return, e.prior)

\* One row has no current return; another has that of February, which
\* differs from January's.
C18_Witness ==
    /\ ComparatorCalled /\ ~IsNone(stats_df)
    /\ \E r \in Range(StatsRows) : IsNaN(r.Current_Return) /\ ~IsNaN(r.Prior_Return)
    /\ \E e \in Range(Entries) :
          /\ SeriesLen(e.current) = 2
          /\ e.current[1][1].YTD # e.current[1][2].YTD
          /\ \E r \in Range(StatsRows) :
                r.Ticker = e.Ticker /\ r.Current_Return = e.current[1][2].YTD

\* C19: in every row difference is current_return - prior_return when both
\* are present and NaN when either is NaN.
C19_Difference ==
    ComparatorCalled =>
        \A r \in Range(StatsRows) :
            IF IsNaN(r.Current_Return) \/ IsNaN(r.Prior_Return)
            THEN IsNaN(r.Difference)
            ELSE /\ ~IsNaN(r.Difference)
                 /\ FEq(Add(r.Difference, r.Prior_Return), r.Current_Return)

\* A row of +5% after +2% shows +3%, and a row without a prior return none.
C19_Witness ==
    /\ ComparatorCalled
    /\ \E r \in Range(StatsRows) :
          /\ r.Current_Return = <<1, 20>> /\ r.Prior_Return = <<1, 50>>
          /\ r.Difference = <<3, 100>>
    /\ \E r \in Range(StatsRows) : IsNaN(r.Prior_Return) /\ IsNaN(r.Difference)

\* The ticker's place in comparison_data.
PlaceOf(ticker) == CHOOSE i \in DOMAIN Entries : Entries[i].Ticker = ticker

----------------------------------------------------------------------------
(* Further properties of the calculator and the series organizer *)

\* C27: calculate_ytd_returns emits no observation of start_year, whatever
\* bars the input holds: every observation has start_year < year <= end_year.
C27_NoStartYearObservation ==
    Calculated =>
        \A r \in Range(Observations) : StartYear < r.Year /\ r.Year <= EndYear

\* The input has the December bar before start_year and bars of start_year,
\* and observations of later years are emitted.
C27_Witness ==
    /\ Calculated
    /\ HasDecemberBar(StartYear - 1)
    /\ \E b \in InputBars : b.Year = StartYear
    /\ Len(Observations) > 0

\* C28: for statistics computed from what prepare_ytd_series returns, n_years
\* is the number of years that have a December value, and best_year and
\* worst_year are present exactly when n_years >= 1.
C28_YearsCounted ==
    (Organized /\ ~IsNone(summary_stats)) =>
        /\ Stats.n_years = Cardinality(YearEndPresent)
        /\ ~IsNone(Stats.best_year) <=> Stats.n_years >= 1
        /\ ~IsNone(Stats.worst_year) <=> Stats.n_years >= 1

\* The highlighted year ends before December and is left out; two other
\* years have their December value.
C28_Witness ==
    /\ Organized /\ ~IsNone(summary_stats)
    /\ prepared[1].last_month_highlight < December
    /\ Stats.n_years = 2
    /\ ~IsNone(Stats.best_year)

----------------------------------------------------------------------------
(* Further properties of the comparator (SpecCompare) *)

\* C21: given fewer than two tickers with usable data,
\* prepare_comparison_data followed by calculate_comparison_statistics
\* completes and returns a table with one row for a single ticker and an
\* empty table for an empty comparison set.
C21_FewerThanTwoTickers ==
    (ComparatorCalled /\ Len(Entries) < 2) =>
        /\ pc = "returned"
        /\ ~IsNone(stats_df)
        /\ Len(StatsRows) = Len(Entries)

----------------------------------------------------------------------------
(* Purity of the calculator (SpecAgain) *)

\* The step is a second call with the bars and the range of the first.
SecondCall ==
    /\ invoked = <<"calculate_ytd_returns">>
    /\ invoked' = <<"calculate_ytd_returns", "calculate_ytd_returns">>
    /\ data' = data
    /\ args'[1].start_year = args[1].start_year
    /\ args'[1].end_year = args[1].end_year

\* C22: calculate_ytd_returns is a function of its arguments bars, start_year
\* and end_year alone: a second call with the same arguments returns the
\* observations the first call returned.
C22_SameArgumentsSameResult == [][SecondCall => ytd_data' = ytd_data]_vars

----------------------------------------------------------------------------
(* Properties of the comparison page (SpecPage) *)

Displayed == pc = "displayed"
Selected == Range(ticker_list)
\* The tickers of comparison_data.
ComparisonSet == IF IsNone(comparison_data) THEN {} ELSE {e.Ticker : e \in Range(Entries)}
\* The tickers the warning names.
Warned == IF IsNone(failed_tickers) THEN {} ELSE Range(failed_tickers[1])
\* The months a series covers.
SeriesMonths(series) == {o.Month : o \in SeriesSet(series)}

\* C26: whatever buttons have been pressed, the list holds at most 5 tickers,
\* no ticker twice, and the compare flow has only run on a list of 2 or more.
C26_ListWithinLimits ==
    /\ Len(ticker_list) <= 5
    /\ \A i, j \in DOMAIN ticker_list : i # j => ticker_list[i] # ticker_list[j]
    /\ "load_ticker_data" \in Range(invoked) => Len(ticker_list) >= 2

\* A full list has been compared.
C26_Witness == Len(ticker_list) = 5 /\ Displayed

\* C25: in January mode the table's current column is headed Full
\* <compare_year> and its prior column Full <baseline_year>.
C25_JanuaryLabels ==
    (Displayed /\ window[1].is_january) =>
        /\ display_df[1].columns[2] = FullLabel(window[1].compare_year)
        /\ display_df[1].columns[3] = FullLabel(window[1].baseline_year)

\* C23: when results are displayed, every selected ticker that is not in the
\* comparison set is named in the warning.
C23_ExclusionsWarned ==
    Displayed => \A t \in Selected : t \notin ComparisonSet => t \in Warned

\* C24: in the displayed comparison, a ticker with both series has the same
\* months in its current and in its prior series.
C24_SameMonths ==
    Displayed =>
        \A e \in Range(Entries) :
            (~IsNone(e.current) /\ ~IsNone(e.prior)) =>
                SeriesMonths(e.current) = SeriesMonths(e.prior)

\* The last completed month of the calendar, and its position on it.
LastCompleted == IF today.month = January THEN December ELSE today.month - 1
LastCompletedOrd == DateOrd(today.year, today.month) - 1

\* The exchange has a bar of the ticker for every month from January of
\* baseline_year - 1 up to the last completed month.
HasBarInEveryMonth(ticker) ==
    \A y \in Years, m \in Months :
        (/\ DateOrd(window[1].baseline_year - 1, January) <= DateOrd(y, m)
         /\ DateOrd(y, m) <= LastCompletedOrd)
        => \E b \in Range(market[ticker]) : b.Year = y /\ b.Month = m

\* The series holds one value for each of the months 1..LastCompleted.
CoversCompletedMonths(series) ==
    /\ ~IsNone(series)
    /\ SeriesMonths(series) = 1..LastCompleted
    /\ SeriesLen(series) = LastCompleted

\* C29: once the page has prepared the comparison, every selected ticker with
\* a bar in every month from January of baseline_year - 1 up to the last
\* completed month has a current and a prior series of exactly the months
\* 1..last completed month.
C29_CompleteHistoryFullSeries ==
    ~IsNone(comparison_data) =>
        \A t \in Selected :
            HasBarInEveryMonth(t) =>
                \E e \in Range(Entries) :
                    /\ e.Ticker = t
                    /\ CoversCompletedMonths(e.current)
                    /\ CoversCompletedMonths(e.prior)

\* In January a ticker with all its bars is compared over twelve months.
C29_Witness ==
    /\ ~IsNone(comparison_data)
    /\ window[1].is_january
    /\ \E e \in Range(Entries) :
          /\ HasBarInEveryMonth(e.Ticker)
          /\ SeriesLen(e.current) = December
          /\ SeriesLen(e.prior) = December

====
